---- MODULE Spec2Model ----
(***************************************************************************)
(* Verification model of                                                   *)
(*   examples/tts/G2P/data/prepare_wiki_data.py   (WikiHomograph data prep)*)
(*   nemo/collections/tts/models/fastpitch_adversarial.py                  *)
(*   nemo_text_processing/g2p/models/g2p_ctc.py   (CTCG2PModel inference)  *)
(*                                                                         *)
(* A Python str is a sequence of code points.  A code point is written as  *)
(* a one-element token: the ASCII character itself, or "U+XXXX" for a      *)
(* character outside ASCII ("U+4E2D" is the CJK ideograph, "U+3058" a      *)
(* hiragana letter, "U+2013" the en dash, "U+00E9" e-acute, "U+0130" the   *)
(* capital I with dot above, "U+0307" the combining dot above).            *)
(***************************************************************************)
EXTENDS Integers, Sequences, FiniteSets, TLC

(***************************************************************************)
(* Bounds of the model.                                                    *)
(***************************************************************************)
MaxLen == 2        \* longest input sentence, in code points
MaxSents == 1      \* most sentences (rows) in one TSV file
MaxLines == 2      \* most lines in the normalized files
MaxFrames == 3     \* most frames of a (padded) mel spectrogram of a batch
MaxSplice == 2     \* largest configured splice_length
MaxSteps == 3      \* most training steps of a fit
MaxManifest == 2   \* most lines of a manifest given to CTCG2PModel inference
MaxCalls == 2      \* most inference calls made on one CTCG2PModel
MaxValBatches == 2 \* most validation batches of an epoch

(***************************************************************************)
(* Input domains.                                                          *)
(***************************************************************************)
\* code points of the sentences of a run of normalize_wikihomograph_data
Alphabet == {"b", "B", "U+2013", "U+0130"}

\* code points of other scripts found in the sentences behind the lines of
\* the normalized files
OtherScripts == {"U+4E2D", "U+3058"}

\* the .tsv files found by glob, named by their homograph (file name without ".tsv")
Homographs == {<<"b">>, <<"b", "b">>}

WordIds == {"w_1", "w_2"}

RECURSIVE SeqsOfLen(_, _)
SeqsOfLen(S, n) ==
  IF n = 0 THEN {<<>>}
  ELSE {Append(s, c) : s \in SeqsOfLen(S, n - 1), c \in S}

Sentences == UNION {SeqsOfLen(Alphabet, n) : n \in 1..MaxLen}

LineSentences == UNION {SeqsOfLen(Alphabet \cup OtherScripts, n) : n \in 1..MaxLen}

None == "None"          \* no value (of a name or message)
NoText == <<>>          \* value of a str variable that is not bound

(***************************************************************************)
(* Python str primitives.                                                  *)
(***************************************************************************)
Min(a, b) == IF a < b THEN a ELSE b

Range(f) == {f[x] : x \in DOMAIN f}

\* s[a:b] for 0 <= a, 0 <= b (indices past the end are clamped)
Slice(s, a, b) ==
  LET lo == Min(a, Len(s))
      hi == Min(b, Len(s))
  IN  IF lo >= hi THEN <<>> ELSE SubSeq(s, lo + 1, hi)

\* s[a:]
SliceFrom(s, a) == Slice(s, a, Len(s))

\* s.startswith(sub, k)  (k is a 0-based offset)
StartsWithAt(s, sub, k) ==
  /\ k + Len(sub) <= Len(s)
  /\ \A j \in 1..Len(sub) : s[k + j] = sub[j]

\* str.lower() of one code point: a str of one code point, or of two for
\* U+0130, which lowers to "i" followed by U+0307
LowerChar(c) ==
  IF c = "B" THEN <<"b">>
  ELSE IF c = "U+0130" THEN <<"i", "U+0307">>
  ELSE <<c>>

\* s.lower()
RECURSIVE Lower(_)
Lower(s) == IF s = <<>> THEN <<>> ELSE LowerChar(Head(s)) \o Lower(Tail(s))

\* s.find(sub, k): lowest 0-based index >= k of an occurrence, or -1
RECURSIVE Find(_, _, _)
Find(s, sub, k) ==
  IF k + Len(sub) > Len(s) THEN -1
  ELSE IF StartsWithAt(s, sub, k) THEN k
  ELSE Find(s, sub, k + 1)

\* s.count(sub) for a non-empty sub: non-overlapping occurrences, left to right
RECURSIVE CountFrom(_, _, _)
CountFrom(s, sub, k) ==
  LET p == Find(s, sub, k)
  IN  IF p = -1 THEN 0 ELSE 1 + CountFrom(s, sub, p + Len(sub))

Count(s, sub) == CountFrom(s, sub, 0)

\* s.replace(old, new) for a non-empty old: non-overlapping, left to right
RECURSIVE Replace(_, _, _)
Replace(s, old, new) ==
  LET p == Find(s, old, 0)
  IN  IF p = -1 THEN s
      ELSE Slice(s, 0, p) \o new \o Replace(SliceFrom(s, p + Len(old)), old, new)


(***************************************************************************)
(* prepare_wiki_data.py: text helpers.                                     *)
(***************************************************************************)
replace_token == <<"[", "]">>

\* pre_process(text): text.replace("e-acute", "e")
pre_process(text) == Replace(text, <<"U+00E9">>, <<"e">>)

\* The replacement chain of post_process_normalization (lines 18-111), in
\* source order: each rule is <<old, new>> of one .replace(old, new).
PostRules ==
  <<
     << <<"s", "l", "a", "s", "h", " ">>,
        <<"/", " ">> >>,
     << <<"U+2013">>,
        <<"-">> >>,
     << <<" ", "s", "l", "a", "s", "h", "[">>,
        <<" ", "s", "l", "a", "s", "h", " ", "[">> >>,
     << <<"U+2014">>,
        <<"-">> >>,
     << <<"C", "U+2083">>,
        <<"C", " ", "t", "h", "r", "e", "e">> >>,
     << <<"I", "U+00B2", "C">>,
        <<"I", " ", "t", "w", "o", " ", "C">> >>,
     << <<"U+03B1", "-", "m", "e", "t", "h", "y", "l">>,
        <<"a", "l", "p", "h", "a", " ", "m", "e", "t", "h", "y", "l">> >>,
     << <<" ", "/", "U+0294", "/">>,
        <<>> >>,
     << <<"B", "U+2081", "U+2080", "U+2085">>,
        <<"B", " ", "o", "n", "e", " ", "h", "u", "n", "d", "r", "e", "d", " ", "a", "n", "d", " ", "f", "i", "v", "e">> >>,
     << <<"B", "U+2084", "U+2088">>,
        <<"B", " ", "f", "o", "r", "t", "y", " ", "e", "i", "g", "h", "t">> >>,
     << <<"B", "U+2082", "U+2088", "-", "B", "-", "B", "U+2082", "U+2088", " ", "(", "B", "U+2085", "U+2087", ")">>,
        <<"B", " ", "t", "w", "e", "n", "t", "y", " ", "e", "i", "g", "h", "t", " ", "B", " ", "B", " ", "t", "w", "e", "n", "t", "y", " ", "e", "i", "g", "h", "t", " ", "(", "B", " ", "f", "i", "f", "t", "y", " ", "s", "e", "v", "e", "n", ")">> >>,
     << <<"N", "F", "-", "U+03BA", "B">>,
        <<"N", "u", "c", "l", "e", "a", "r", " ", "f", "a", "c", "t", "o", "r", " ", "k", "a", "p", "p", "a", " ", "B">> >>,
     << <<"P", "L", "C", "U+03B3">>,
        <<"P", "h", "o", "s", "p", "h", "o", "i", "n", "o", "s", "i", "t", "i", "d", "e", " ", "p", "h", "o", "s", "p", "h", "o", "l", "i", "p", "a", "s", "e", " ", "g", "a", "m", "m", "a">> >>,
     << <<"#", "U+00BD">>,
        <<>> >>,
     << <<"p", "U+1D62">>,
        <<"p", " ", "i">> >>,
     << <<"R", "S", "O", "U+2082", "O", "H">>,
        <<"R", " ", "S", " ", "O", " ", "t", "w", "o", " ", "O", " ", "H">> >>,
     << <<" ", "2", "U+1D43", "U+02E3", "U+2071", "U+02E2">>,
        <<>> >>,
     << <<":", " ", "U+0413", "U+0443", "U+0433", "U+0443", "U+0442", "U+043A", "U+0430">>,
        <<>> >>,
     << <<" ", "U+0715", ",", " ", "d", "-", ",", " ", "d", "a", "-", ".">>,
        <<>> >>,
     << <<" ", "A", "U+2070">>,
        <<>> >>,
     << <<"1", "7", "U+03B2">>,
        <<"s", "e", "v", "e", "n", "t", "e", "e", "n", " ", "b", "e", "t", "a">> >>,
     << <<" ", "(", "U+82F1", "U+7C73", "U+672C", "U+4F4D", "U+306E", "U+5E73", "U+548C", "U+4E3B", "U+7FA9", "U+3092", "U+6392", "U+3059", ")">>,
        <<>> >>,
     << <<" ", "(", "R", "u", "s", "s", "i", "a", "n", ":", " ", "U+0440", "U+0435", "U+043A", "U+0440", "U+0443", "U+0442", "U+0441", "U+043A", "U+0430", "U+044F", " ", "U+043F", "U+043E", "U+0432", "U+0438", "U+043D", "U+043D", "U+043E", "U+0441", "U+0442", "U+044C", ")">>,
        <<>> >>,
     << <<"U+03C0", "U+03BB", "U+03B1", "U+03C4", "U+03C5", "U+03C2", " ">>,
        <<>> >>,
     << <<"(", "U+3058", "U+3044", "U+3061", "U+3083", "U+3093", " ", "J", "i", "i", "c", "h", "a", "n", ")">>,
        <<>> >>,
     << <<"W", "C", "l", "U+2086">>,
        <<"W", " ", "C", " ", "L", " ", "s", "i", "x">> >>,
     << <<" ", "C", "a", "(", "C", "U+2081", "U+2080", "H", "U+2081", "U+2082", "O", "U+2084", "N", "U+2085", "P", "O", "U+2084", ")">>,
        <<" ", "s", "h", "o", "w", "n", " ", "i", "n", " ", "t", "h", "e", " ", "b", "o", "o", "k">> >>,
     << <<" ", "(", "b", "d", "a", ")", "F", "e", "(", "C", "O", ")", "U+2083">>,
        <<>> >>,
     << <<"T", "r", "i", "s", "(", "p", "e", "n", "t", "a", "f", "l", "u", "o", "r", "o", "p", "h", "e", "n", "y", "l", ")", "b", "o", "r", "a", "n", "e">>,
        <<"T", "r", "i", "s", " ", "(", "p", "e", "n", "t", "a", "f", "l", "u", "o", "r", "o", "p", "h", "e", "n", "y", "l", ")", " ", "b", "o", "r", "a", "n", "e">> >>,
     << <<" ", "(", "C", "U+2086", "F", "U+2085", ")", "U+2083", "B">>,
        <<>> >>,
     << <<" ", "w", "i", "t", "h", " ", "t", "h", "e", " ", "f", "o", "r", "m", "u", "l", "a", " ", "N", "a", "U+2082", "H", "P", "O", "U+2084">>,
        <<>> >>,
     << <<"U+01C0", "X", "a", "m", ",", " ", "U+01C2", "U", "n", "g", "k", "u", "e">>,
        <<"X", "a", "m", ",", " ", "U", "n", "g", "k", "u", "e">> >>,
     << <<"Y", "t", "t", "e", "r", "b", "i", "u", "m", "(", "I", "I", "I", ")", " ", "c", "h", "l", "o", "r", "i", "d", "e", " ", "(", "Y", "b", "C", "l", "U+2083", ")">>,
        <<"Y", "t", "t", "e", "r", "b", "i", "u", "m", " ", "c", "h", "l", "o", "r", "i", "d", "e">> >>,
     << <<" ", "w", "i", "t", "h", " ", "t", "h", "e", " ", "f", "o", "r", "m", "u", "l", "a", " ", "C", "l", "U+2082", "O", "U+2087">>,
        <<>> >>,
     << <<" ", "w", "i", "t", "h", " ", "f", "o", "r", "m", "u", "l", "a", " ", "(", "C", "H", "U+2083", ")", "U+2082", "C", "U+2086", "H", "U+2083", "N", "H", "U+2082">>,
        <<>> >>,
     << <<"C", "U+2086", "F", "U+2085", "X", "e", "F">>,
        <<"t", "h", "i", "s", " ", "o", "n", "e">> >>,
     << <<"C", "U+2084", "H", "U+2084", "S">>,
        <<"t", "h", "i", "s", " ", "o", "n", "e">> >>,
     << <<"P", "b", "C", "r", "O", "U+2084">>,
        <<"t", "h", "i", "s", " ", "o", "n", "e">> >>,
     << <<"P", "b", "S", "U+2082">>,
        <<"t", "h", "i", "s", " ", "o", "n", "e">> >>,
     << <<"C", "d", "(", "C", "H", "U+2083", ")", "U+2082">>,
        <<"s", "h", "o", "w", "n", " ", "i", "n", " ", "t", "h", "e", " ", "b", "o", "o", "k">> >>,
     << <<"U+03B2">>,
        <<"b", "e", "t", "a">> >>,
     << <<"M", "U+03A9", " ">>,
        <<>> >>,
     << <<"K", "U+2082", "(", "C", "U+2082", "H", "U+2084", "O", "(", "C", "O", "O", ")", "U+2082", ")">>,
        <<"m", "e", "n", "t", "i", "o", "n", "e", "d", " ", "a", "b", "o", "v", "e">> >>,
     << <<" ", "(", "N", "I", "U+2083", ")">>,
        <<>> >>,
     << <<" ", "w", "i", "t", "h", " ", "f", "o", "r", "m", "u", "l", "a", " ", "K", "C", "U+2085", "H", "U+2088", "N", "O", "U+2084">>,
        <<>> >>,
     << <<" ", "G", "i", "n", "'", "i", "r", "o", " ", "D", "o", "r", "e", "s", "u", " ", "(", "U+9280", "U+8272", "U+30C9", "U+30EC", "U+30B9", " ", "S", "i", "l", "v", "e", "r", " ", "D", "r", "e", "s", "s", ")">>,
        <<" ", "S", "i", "l", "v", "e", "r", " ", "D", "r", "e", "s", "s">> >>,
     << <<"U+03C1", "-">>,
        <<"p", " ">> >>,
     << <<"U+03C3", "2", "B", " ", "(", "t", "h", "e", " ", "\"", "B", "r", "e", "e", "d", "i", "n", "g", " ", "e", "x", "p", "e", "c", "t", "a", "t", "i", "o", "n", "s", "\"", " ", "v", "a", "r", "i", "a", "n", "c", "e", ")", " ", "a", "n", "d", " ", "U+03C3", "2", "U+03B4", " ", "(", "t", "h", "e", " ", "\"", "B", "r", "e", "e", "d", "i", "n", "g", " ", "d", "e", "v", "i", "a", "t", "i", "o", "n", "s", "\"", " ", "v", "a", "r", "i", "a", "n", "c", "e", ")">>,
        <<"t", "h", "e", " ", "\"", "B", "r", "e", "e", "d", "i", "n", "g", " ", "e", "x", "p", "e", "c", "t", "a", "t", "i", "o", "n", "s", "\"", " ", "v", "a", "r", "i", "a", "n", "c", "e", " ", "a", "n", "d", " ", "t", "h", "e", " ", "\"", "B", "r", "e", "e", "d", "i", "n", "g", " ", "d", "e", "v", "i", "a", "t", "i", "o", "n", "s", "\"", " ", "v", "a", "r", "i", "a", "n", "c", "e">> >>,
     << <<" ", "C", "a", "C", "l", "U+2082">>,
        <<>> >>,
     << <<"c", "o", "p", "p", "e", "r", "(", "I", "I", ")", " ", "a", "c", "e", "t", "a", "t", "e", " ", "t", "o", " ", "c", "o", "p", "p", "e", "r", "(", "I", ")", " ", "o", "x", "i", "d", "e", " ", "(", "C", "u", "U+2082", "O", ")">>,
        <<"c", "o", "p", "p", "e", "r", " ", "a", "c", "e", "t", "a", "t", "e", " ", "t", "o", " ", "c", "o", "p", "p", "e", "r", " ", "o", "x", "i", "d", "e">> >>,
     << <<"C", "u", "S", "O", "U+2084">>,
        <<"C", " ", "u", " ", "S", " ", "O", " ", "f", "o", "u", "r">> >>,
     << <<"T", "h", "e", " ", "f", "u", "n", "c", "t", "i", "o", "n", " ", "e", "U+1D43", "U+02E3">>,
        <<"T", "h", "i", "s", " ", "f", "u", "n", "c", "t", "i", "o", "n">> >>,
     << <<"R", "U+2074">>,
        <<"R", " ", "t", "o", " ", "t", "h", "e", " ", "f", "o", "r", "t", "h", " ", "p", "o", "w", "e", "r">> >>,
     << <<"U+2080">>,
        <<" ", "z", "e", "r", "o", " ">> >>,
     << <<"U+2081">>,
        <<" ", "o", "n", "e", " ">> >>,
     << <<"U+2082">>,
        <<" ", "t", "w", "o", " ">> >>,
     << <<"U+2083">>,
        <<" ", "t", "h", "r", "e", "e", " ">> >>,
     << <<"U+2084">>,
        <<" ", "f", "o", "u", "r">> >>,
     << <<"U+2085">>,
        <<" ", "f", "i", "v", "e", " ">> >>,
     << <<"U+2086">>,
        <<" ", "s", "i", "x", " ">> >>,
     << <<"U+2087">>,
        <<" ", "s", "e", "v", "e", "n", " ">> >>,
     << <<"U+03B4", "-">>,
        <<"d", "e", "l", "t", "a">> >>,
     << <<"U+03C0", "r", "U+00B2">>,
        <<"p", "i", " ", "r", " ", "s", "q", "u", "a", "r", "e", "d">> >>,
     << <<"k", "m", "U+00B3">>,
        <<"c", "u", "b", "i", "c", " ", "k", "i", "l", "o", "m", "e", "t", "e", "r", "s">> >>,
     << <<"C", "U", " ", "m", "i">>,
        <<"c", "u", "b", "i", "c", " ", "m", "i", "l", "e", "s">> >>,
     << <<"U+00B3">>,
        <<" ", "c", "u", "b", "e", "d">> >>,
     << <<"U+02BB", "o">>,
        <<>> >>,
     << <<" ", "(", "H", "a", "n", "g", "u", "l", ":", " ", "U+D654", "U+ACBD", "U+C219", "U+BE48", "U+CD5C", "U+C528", ";", " ", "H", "a", "n", "j", "a", ":", " ", "U+548C", "U+74CA", "U+6DD1", "U+5B2A", "U+5D14", "U+6C0F", ")">>,
        <<>> >>,
     << <<"(", "B", "u", "l", "g", "a", "r", "i", "a", "n", ":", " ", "U+0421", "U+043C", "U+0438", "U+043B", "U+0446", "U+0435", "U+043D", "U+0430", ")", " ">>,
        <<>> >>,
     << <<"(", "U+041C", "U+0438", "U+0441", "U+0441", " ", "C", "C", "C", "P", ")", " ">>,
        <<>> >>,
     << <<"U+03C3">>,
        <<" ", "s", "i", "g", "m", "a", " ">> >>,
     << <<"U+03B1">>,
        <<" ", "a", "l", "p", "h", "a", " ">> >>,
     << <<"U+03B3">>,
        <<" ", "g", "a", "m", "m", "a", " ">> >>,
     << <<"U+03BA">>,
        <<" ", "k", "a", "p", "p", "a", " ">> >>,
     << <<"U+03BC", "e", "f", "f">>,
        <<"e", "f", "f", "e", "c", "t", "i", "v", "e", " ", "m", "a", "g", "n", "e", "t", "i", "c", " ", "m", "o", "m", "e", "n", "t">> >>,
     << <<"U+0411", "U+0435", "U+043E", "U+0433", "U+0440", "U+0430", "U+0434", "U+0441", "U+043A", "U+0438", " ", "U+0421", "U+0438", "U+043D", "U+0434", "U+0438", "U+043A", "U+0430", "U+0442">>,
        <<>> >>,
     << <<"(", "U+30E2", "U+30F3", "U+30AD", "U+30FC", "U+30DE", "U+30B8", "U+30C3", "U+30AF", ")", " ">>,
        <<>> >>,
     << <<"P", "U+2075">>,
        <<"P", " ", "t", "o", " ", "t", "h", "e", " ", "f", "i", "f", "t", "h", " ", "p", "o", "w", "e", "r">> >>,
     << <<"U+039B", "U+1D4F", "V">>,
        <<"l", "a", "m", "b", "d", "a", " ", "V">> >>,
     << <<"I", "-", "6", "9", "5">>,
        <<"I", "-", "s", "i", "x", " ", "h", "u", "n", "d", "r", "e", "d", " ", "n", "i", "n", "e", "t", "y", " ", "f", "i", "v", "e">> >>,
     << <<"5", "0", "1">>,
        <<"f", "i", "v", "e", " ", "h", "u", "n", "d", "r", "e", "d", " ", "a", "n", "d", " ", "o", "n", "e">> >>,
     << <<"2", "0", "0", "9">>,
        <<"t", "w", "e", "n", "t", "y", " ", "o", "h", " ", "n", "i", "n", "e">> >>,
     << <<"U+1D62">>,
        <<" ", "i", " ">> >>,
     << <<"U+00B5", "g", "/", "m", "L">>,
        <<"m", "i", "c", "r", "o", "g", "r", "a", "m", " ", "p", "e", "r", " ", "m", "i", "l", "l", "i", "l", "i", "t", "e", "r">> >>,
     << <<"U+03C1", "U+03B5">>,
        <<"r", "e">> >>,
     << <<"U+03C2">>,
        <<"s">> >>,
     << <<"f", "o", "r", " ", "g", "U+00B9", "(", "q", ";", "U+03C4", ")">>,
        <<>> >>,
     << <<"G", "(", "U+0393", ")">>,
        <<"G">> >>,
     << <<"U+03C0">>,
        <<"p", "i">> >>,
     << <<":", "U+062C", "U+0627", "U+0645", "U+0639", "U+0629", " ", "U+0627", "U+0644", "U+0645", "U+063A", "U+062A", "U+0631", "U+0628", "U+064A", "U+0646">>,
        <<>> >>,
     << <<"T", "U+1D4F", "M">>,
        <<"T", " ", "M">> >>
  >>

\* text after rules k, k+1, ... of the chain have been applied to it in order.
\* A rule whose pattern starts with a code point that text does not hold
\* leaves text as it is, so the chain moves on to the first rule that can match.
RECURSIVE ApplyRules(_, _, _)
ApplyRules(text, rules, k) ==
  LET chars == Range(text)
      can == {j \in k..Len(rules) : rules[j][1][1] \in chars}
  IN  IF can = {} THEN text
      ELSE LET j == CHOOSE m \in can : \A n \in can : m <= n
           IN  ApplyRules(Replace(text, rules[j][1], rules[j][2]), rules, j + 1)

\* post_process_normalization(text): the chain, then text.replace("  ", " ")
post_process_normalization(text) ==
  Replace(ApplyRules(text, PostRules, 1), <<" ", " ">>, <<" ">>)

\* a code point in the range U+4E00..U+9FFF (CJK Unified Ideographs)
IsCJK(c) == c = "U+4E2D"

\* re.findall of the CJK character class with "+": the maximal runs of CJK
\* code points of text, in order of occurrence
RECURSIVE CjkRuns(_, _, _)
CjkRuns(text, k, run) ==
  IF k > Len(text) THEN (IF run = <<>> THEN <<>> ELSE <<run>>)
  ELSE IF IsCJK(text[k]) THEN CjkRuns(text, k + 1, Append(run, text[k]))
  ELSE (IF run = <<>> THEN <<>> ELSE <<run>>) \o CjkRuns(text, k + 1, <<>>)

RECURSIVE RemoveRuns(_, _, _)
RemoveRuns(text, runs, k) ==
  IF k > Len(runs) THEN text
  ELSE RemoveRuns(Replace(text, runs[k], <<>>), runs, k + 1)

\* remove_cjk(text): for every run found, text = text.replace(run, "")
remove_cjk(text) == RemoveRuns(text, CjkRuns(text, 1, <<>>), 1)

(***************************************************************************)
(* Code of the repository outside the modelled files.                      *)
(***************************************************************************)
\* correct_wikihomograph_data(sent, start, end): fixes the indices of a
\* fixed list of known WikiHomograph sentences; any other sentence is
\* returned as it is
correct_wikihomograph_data(s, a, b) == <<s, a, b>>

\* Normalizer.normalize(text=...), when it returns: written-form tokens
\* (numbers, dates, ...) are verbalised; a text without such tokens is
\* returned as it is
normalize(text) == text

(***************************************************************************)
(* normalize_wikihomograph_data: one row of a TSV file.                    *)
(***************************************************************************)
\* lines 151-155: the span of the row and its relocation
Relocate(snt, a, b, homograph) ==
  LET span == Slice(snt, a, b)
  IN  IF Lower(span) # homograph /\ Count(Lower(snt), homograph) = 1
      THEN LET s == Find(Lower(snt), homograph, 0)
               e == s + Len(homograph)
           IN  [start |-> s, end |-> e, homograph_span |-> Lower(Slice(snt, s, e)),
                relocated |-> TRUE]
      ELSE [start |-> a, end |-> b, homograph_span |-> span, relocated |-> FALSE]

SpanMismatch_LengthOnly(span, homograph) == Len(span) # Len(homograph)

\* line 160: the row is skipped
SpanMismatch(span, homograph) == Lower(span) # homograph

\* line 166
SentenceToNormalize(snt, a, b) == Slice(snt, 0, a) \o replace_token \o SliceFrom(snt, b)

MakeEntry_LowerSpan(nt, a, b, span, wid) ==
  [text_graphemes      |-> nt,
   norm_text_graphemes |-> Replace(nt, replace_token, Lower(span)),
   start_end           |-> <<a, b>>,
   homograph_span      |-> span,
   word_id             |-> wid]

\* lines 176-182
MakeEntry(nt, a, b, span, wid) ==
  [text_graphemes      |-> nt,
   norm_text_graphemes |-> Replace(nt, replace_token, span),
   start_end           |-> <<a, b>>,
   homograph_span      |-> span,
   word_id             |-> wid]

(***************************************************************************)
(* State of one run of normalize_wikihomograph_data.                       *)
(***************************************************************************)
VARIABLES
  pc,             \* "files": the for statement of line 136; "sentences": the
                  \* for statement of line 144; "pdb": stopped in
                  \* pdb.set_trace(); "normalize": at line 166; "iter_end": the
                  \* body of line 144 has run; "done"; "crashed"
  todo,           \* files of the glob not yet visited
  preexisting,    \* files whose output .json exists when the run starts
  processed,      \* files read by read_wikihomograph_file (line 142)
  file,           \* homograph of the file being processed
  i,              \* sentences of the current file taken by the loop
  given,          \* <<start, end>> as read from the TSV row
  sent,           \* local sent (after correction and pre_process)
  start,          \* local start
  end,            \* local end
  homograph_span, \* local homograph_span
  norm_text,      \* local norm_text
  norm_text_bound,\* norm_text has been assigned
  num_removed,    \* local num_removed
  written,        \* the entries written to f_out by the current iteration
  printed,        \* message printed by the current iteration
  raised,         \* normalizer.normalize raised in the current iteration
  calls,          \* calls of normalizer.normalize in the current iteration
  numRead,        \* sentences read from the processed files so far
  numWritten,     \* lines written to the output files so far
  reported,       \* the removed counts printed at line 184
  error           \* the exception that ended the run

normVars == <<pc, todo, preexisting, processed, file, i, given, sent, start, end,
              homograph_span, norm_text, norm_text_bound, num_removed,
              written, printed, raised, calls, numRead, numWritten, reported, error>>

iterVars == <<given, sent, start, end, homograph_span>>
fileVars == <<todo, preexisting, processed, file, i>>
textVars == <<norm_text, norm_text_bound>>

(***************************************************************************)
(* State of one run of _prepare_wikihomograph_data.                        *)
(***************************************************************************)
VARIABLES
  ppc,              \* "lines": the for statements of lines 199-201;
                    \* "line_end": the body has run; "done"; "crashed"
  line,             \* the lines read by the current iteration (json.loads)
  out,              \* the lines written to the manifest by the current iteration
  graphemes_,       \* local graphemes_
  graphemes_bound,  \* graphemes_ has been assigned
  drop,             \* local drop
  linesRead,        \* lines read so far
  manifestLines,    \* lines written to the manifest so far
  perror            \* the exception that ended the run

prepVars == <<ppc, line, out, graphemes_, graphemes_bound, drop, linesRead,
              manifestLines, perror>>

(***************************************************************************)
(* State of a FastPitchAdversarialModel under a trainer.                   *)
(***************************************************************************)
VARIABLES
  gpc,               \* "constructed": after __init__; "fit": the optimizers
                     \* are configured; "failed": a hook raised
  learn_alignment,   \* cfg.learn_alignment
  ds_class_name,     \* self.ds_class_name: class name of
                     \* cfg.train_ds.dataset._target_; None when not set
  logger,            \* class of self.logger
  splice_length,     \* cfg.splice_length
  optimizers,        \* first list returned by configure_optimizers
  schedulers,        \* second list returned by configure_optimizers
  log_train_images,  \* self.log_train_images
  global_step,       \* training steps done
  val_outputs,       \* validation_step outputs of the running epoch
  result,            \* what the last hook did and returned
  gerror             \* the exception raised by a hook

ganVars == <<gpc, learn_alignment, ds_class_name, logger, splice_length, optimizers,
             schedulers, log_train_images, global_step, val_outputs, result, gerror>>

(***************************************************************************)
(* State of a CTCG2PModel whose inference methods are called.              *)
(***************************************************************************)
VARIABLES
  cpc,               \* position: "idle" (no call running), "try", "setup",
                     \* "finally" inside _infer
  training,          \* self.training
  training_at_call,  \* self.training when the running or last call was made
  entry,             \* the method called: "_infer" or
                     \* "convert_graphemes_to_phonemes"
  manifest,          \* the lines of manifest_filepath
  target_field,      \* argument target_field
  batch_size,        \* argument batch_size
  mode,              \* local mode of _infer
  all_preds,         \* local all_preds of _infer
  pending,           \* the exception in flight inside _infer
  f_out,             \* the lines written to output_manifest_filepath
  returned,          \* the list returned by the last call
  g2p_error,         \* the exception that ended the last call
  ncalls             \* calls made so far

g2pVars == <<cpc, training, training_at_call, entry, manifest, target_field, batch_size,
             mode, all_preds, pending, f_out, returned, g2p_error, ncalls>>

InitNormalize ==
  /\ pc = "files"
  /\ todo = Homographs
  /\ preexisting \in SUBSET Homographs
  /\ processed = {}
  /\ file = NoText
  /\ i = 0
  /\ given = <<0, 0>> /\ sent = NoText /\ start = 0 /\ end = 0
  /\ homograph_span = NoText
  /\ norm_text = NoText /\ norm_text_bound = FALSE
  /\ num_removed = 0
  /\ written = <<>> /\ printed = None /\ raised = FALSE /\ calls = 0
  /\ numRead = 0 /\ numWritten = 0
  /\ reported = <<>>
  /\ error = None

\* the function is left, by an exception or by its end: its frame and the
\* locals of the loops are gone
FrameGone ==
  /\ given' = <<0, 0>> /\ sent' = NoText /\ start' = 0 /\ end' = 0
  /\ homograph_span' = NoText
  /\ norm_text' = NoText /\ norm_text_bound' = FALSE

Crash(exception) ==
  /\ pc' = "crashed"
  /\ error' = exception
  /\ FrameGone

\* lines 136-143: next file of the glob; an existing output file is skipped
OutputExists(f) == f \in preexisting \cup processed

NextFileBody_NoSkip(f) ==
  /\ file' = f
  /\ processed' = processed \cup {f}
  /\ i' = 0
  /\ pc' = "sentences"

NextFileBody(f) ==
  IF OutputExists(f)
  THEN /\ pc' = "files"
       /\ UNCHANGED <<processed, file, i>>
  ELSE /\ file' = f
       /\ processed' = processed \cup {f}
       /\ i' = 0
       /\ pc' = "sentences"

NextFile ==
  /\ UNCHANGED <<prepVars, ganVars, g2pVars>>
  /\ pc = "files"
  /\ \E f \in todo :
       /\ todo' = todo \ {f}
       /\ NextFileBody(f)
  /\ UNCHANGED <<preexisting, iterVars, textVars, num_removed, written, printed,
                 raised, calls, numRead, numWritten, reported, error>>

\* lines 144-165: the loop takes the next row of the file
ForSentence ==
  /\ UNCHANGED <<prepVars, ganVars, g2pVars>>
  /\ pc = "sentences"
  /\ i < MaxSents
  /\ \E s0 \in Sentences :
       \E a \in 0..(Len(s0) - 1) :
         \E b \in (a + 1)..Len(s0) :
           LET c   == correct_wikihomograph_data(s0, a, b)
               snt == pre_process(c[1])
               r   == Relocate(snt, c[2], c[3], file)
           IN  IF r.relocated /\ file # Lower(r.homograph_span)
               THEN \* line 156
                    Crash("AssertionError")
               ELSE /\ given' = <<a, b>>
                    /\ sent' = snt
                    /\ start' = r.start
                    /\ end' = r.end
                    /\ homograph_span' = r.homograph_span
                    /\ pc' = IF SpanMismatch(r.homograph_span, file)
                             THEN "pdb" ELSE "normalize"
                    /\ UNCHANGED <<textVars, error>>
  /\ i' = i + 1
  /\ numRead' = numRead + 1
  /\ written' = <<>> /\ printed' = None /\ raised' = FALSE /\ calls' = 0
  /\ UNCHANGED <<todo, preexisting, processed, file, num_removed,
                 numWritten, reported>>

\* lines 161-164: the debugger is left with "continue"
PdbContinue ==
  /\ UNCHANGED <<prepVars, ganVars, g2pVars>>
  /\ pc = "pdb"
  /\ num_removed' = num_removed + 1
  /\ pc' = "iter_end"
  /\ UNCHANGED <<fileVars, iterVars, textVars, written, printed, raised, calls,
                 numRead, numWritten, reported, error>>

\* lines 161-163: the debugger is left with "quit", or its input is at end of
\* file: bdb.BdbQuit leaves the function
PdbQuit ==
  /\ UNCHANGED <<prepVars, ganVars, g2pVars>>
  /\ pc = "pdb"
  /\ Crash("BdbQuit")
  /\ UNCHANGED <<fileVars, num_removed, written, printed,
                 raised, calls, numRead, numWritten, reported>>

\* lines 166-183: the row is normalized and its entry is written
Normalize ==
  /\ UNCHANGED <<prepVars, ganVars, g2pVars>>
  /\ pc = "normalize"
  /\ calls' = calls + 1
  /\ \E ok \in BOOLEAN, wid \in WordIds :
       LET stn    == SentenceToNormalize(sent, start, end)
           \* lines 167-173
           nt     == IF ok THEN normalize(stn) ELSE norm_text
           bound  == ok \/ norm_text_bound
       IN  /\ raised' = ~ok
           /\ printed' = IF ok THEN None ELSE "TN ERROR"
           /\ num_removed' = IF ok THEN num_removed ELSE num_removed + 1
           /\ IF ~bound
              THEN \* line 175 reads a local that was never assigned
                   /\ Crash("UnboundLocalError")
                   /\ UNCHANGED <<written, numWritten>>
              ELSE /\ norm_text' = post_process_normalization(nt)
                   /\ norm_text_bound' = TRUE
                   /\ written' = <<MakeEntry(norm_text', start, end,
                                             homograph_span, wid)>>
                   /\ numWritten' = numWritten + 1
                   /\ pc' = "iter_end"
                   /\ UNCHANGED <<iterVars, error>>
  /\ UNCHANGED <<fileVars, numRead, reported>>

\* control returns to the for statement of line 144
EndIteration ==
  /\ UNCHANGED <<prepVars, ganVars, g2pVars>>
  /\ pc = "iter_end"
  /\ pc' = "sentences"
  /\ given' = <<0, 0>> /\ sent' = NoText /\ start' = 0 /\ end' = 0
  /\ homograph_span' = NoText
  /\ written' = <<>> /\ printed' = None /\ raised' = FALSE /\ calls' = 0
  /\ UNCHANGED <<fileVars, textVars, num_removed, numRead, numWritten, reported, error>>

\* the rows of the file are exhausted: f_out is closed, back to line 136
EndOfFile ==
  /\ UNCHANGED <<prepVars, ganVars, g2pVars>>
  /\ pc = "sentences"
  /\ pc' = "files"
  /\ UNCHANGED <<fileVars, iterVars, textVars, num_removed, written, printed,
                 raised, calls, numRead, numWritten, reported, error>>

\* line 184: the glob is exhausted
Finish ==
  /\ UNCHANGED <<prepVars, ganVars, g2pVars>>
  /\ pc = "files"
  /\ todo = {}
  /\ pc' = "done"
  /\ reported' = Append(reported, num_removed)
  /\ FrameGone
  /\ UNCHANGED <<fileVars, num_removed, written, printed,
                 raised, calls, numRead, numWritten, error>>

NextNormalize ==
  \/ NextFile
  \/ ForSentence
  \/ PdbContinue
  \/ PdbQuit
  \/ Normalize
  \/ EndIteration
  \/ EndOfFile
  \/ Finish

(***************************************************************************)
(* _prepare_wikihomograph_data: code of the repository outside the         *)
(* modelled files (data_preparation_utils).                                *)
(***************************************************************************)
\* code points outside ASCII
NonAscii ==
  {"U+2013", "U+2014", "U+4E2D", "U+3058", "U+00E9", "U+201C", "U+201D", "U+0130", "U+0307"}

\* is_valid(text): the text holds ASCII letters, spaces and punctuation only
is_valid(text) == \A k \in 1..Len(text) : text[k] \notin NonAscii

\* get_wordid_to_nemo_cmu(...): word id -> IPA form of the heteronym
wordid_to_nemo_cmu == [w \in WordIds |-> <<"/", w, "/">>]

\* ipa_tok(graphemes, wordid_to_nemo_cmu): the phonemes of the text and the
\* graphemes they were produced from; the placeholder is kept in both
IpaOfChar(c) == IF c \in {"b", "B"} THEN "/b/" ELSE c
ipa_tok(graphemes) ==
  [ipa       |-> [k \in 1..Len(graphemes) |-> IpaOfChar(graphemes[k])],
   graphemes |-> graphemes]

\* post_process(text): typographic quotes and dashes are made ASCII
post_process(text) ==
  Replace(Replace(Replace(text, <<"U+201C">>, <<"\"">>), <<"U+201D">>, <<"\"">>),
          <<"U+2014">>, <<"-">>)

(***************************************************************************)
(* _prepare_wikihomograph_data: the lines of the normalized files.         *)
(***************************************************************************)
\* the rows normalize_wikihomograph_data writes an entry for, as the locals
\* start, end, homograph_span, and the text it normalizes for them; the
\* sentences are those of LineSentences
AlignedRows ==
  {r \in {[h |-> h, ok |-> a < b /\ b <= Len(s0),
           snt |-> pre_process(correct_wikihomograph_data(s0, a, b)[1]),
           loc |-> Relocate(pre_process(correct_wikihomograph_data(s0, a, b)[1]), a, b, h)] :
             h \in Homographs, s0 \in LineSentences, a \in 0..(MaxLen - 1), b \in 1..MaxLen} :
     r.ok /\ ~SpanMismatch(r.loc.homograph_span, r.h)}

\* the values norm_text takes at line 176: the post-processed text of the
\* row, or the post-processed text an earlier row left in norm_text
FreshTexts ==
  {post_process_normalization(normalize(SentenceToNormalize(r.snt, r.loc.start, r.loc.end))) :
     r \in AlignedRows}

NormTexts == FreshTexts \cup {post_process_normalization(t) : t \in FreshTexts}

\* the lines normalize_wikihomograph_data can leave in the normalized files
NormalizedLines ==
  {MakeEntry(nt, r.loc.start, r.loc.end, r.loc.homograph_span, wid) :
     nt \in NormTexts, r \in AlignedRows, wid \in WordIds}

(***************************************************************************)
(* _prepare_wikihomograph_data: one line (lines 202-221).                  *)
(***************************************************************************)
Duration == "0.001"
AudioFilepath == "n/a"

\* line 206
GraphemesOf(ln) == remove_cjk(ln.text_graphemes)

\* lines 211-215: the grapheme form written to the manifest
ManifestGraphemes(ln) ==
  post_process(Replace(ipa_tok(GraphemesOf(ln)).graphemes, replace_token,
                       ln.homograph_span))

\* lines 211-218: the phoneme form written to the manifest
ManifestPhonemes(ln) ==
  post_process(Replace(ipa_tok(GraphemesOf(ln)).ipa, replace_token,
                       wordid_to_nemo_cmu[ln.word_id]))

ManifestLine_OverwritesNormText(ln) ==
  [k \in DOMAIN ln \cup {"text_graphemes", "text", "duration", "audio_filepath"} |->
     CASE k = "text_graphemes" -> ManifestGraphemes(ln)
       [] k = "norm_text_graphemes" -> ManifestGraphemes(ln)
       [] k = "text" -> ManifestPhonemes(ln)
       [] k = "duration" -> Duration
       [] k = "audio_filepath" -> AudioFilepath
       [] OTHER -> ln[k]]

ManifestLine_FromInputSpan(ln) ==
  [k \in DOMAIN ln \cup {"text_graphemes", "text", "duration", "audio_filepath"} |->
     CASE k = "text_graphemes" -> ManifestGraphemes(ln)
       [] k = "homograph_span" -> Lower(ln[k])
       [] k = "text" -> ManifestPhonemes(ln)
       [] k = "duration" -> Duration
       [] k = "audio_filepath" -> AudioFilepath
       [] OTHER -> ln[k]]

\* lines 217-221: the JSON object written for a valid line
ManifestLine(ln) ==
  [k \in DOMAIN ln \cup {"text_graphemes", "text", "duration", "audio_filepath"} |->
     CASE k = "text_graphemes" -> ManifestGraphemes(ln)
       [] k = "text" -> ManifestPhonemes(ln)
       [] k = "duration" -> Duration
       [] k = "audio_filepath" -> AudioFilepath
       [] OTHER -> ln[k]]

InitPrepare ==
  /\ ppc = "lines"
  /\ line = <<>>
  /\ out = <<>>
  /\ graphemes_ = NoText /\ graphemes_bound = FALSE
  /\ drop = <<>>
  /\ linesRead = 0
  /\ manifestLines = 0
  /\ perror = None

\* lines 201-221: the next line of the normalized files
ForLine ==
  /\ UNCHANGED <<normVars, ganVars, g2pVars>>
  /\ ppc = "lines"
  /\ linesRead < MaxLines
  /\ \E l \in NormalizedLines :
       /\ line' = <<l>>
       /\ linesRead' = linesRead + 1
       /\ IF ~is_valid(GraphemesOf(l))
          THEN \* line 208
               IF graphemes_bound
               THEN /\ drop' = Append(drop, graphemes_)
                    /\ ppc' = "line_end"
                    /\ UNCHANGED <<out, graphemes_, graphemes_bound, manifestLines, perror>>
               ELSE /\ ppc' = "crashed"
                    /\ perror' = "UnboundLocalError"
                    /\ UNCHANGED <<out, graphemes_, graphemes_bound, drop, manifestLines>>
          ELSE /\ graphemes_' = ManifestGraphemes(l)
               /\ graphemes_bound' = TRUE
               /\ out' = <<ManifestLine(l)>>
               /\ manifestLines' = manifestLines + 1
               /\ ppc' = "line_end"
               /\ UNCHANGED <<drop, perror>>

\* control returns to the for statement of line 201
EndLine ==
  /\ UNCHANGED <<normVars, ganVars, g2pVars>>
  /\ ppc = "line_end"
  /\ ppc' = "lines"
  /\ line' = <<>>
  /\ out' = <<>>
  /\ UNCHANGED <<graphemes_, graphemes_bound, drop, linesRead, manifestLines, perror>>

\* lines 222-225: the files are exhausted
FinishPrepare ==
  /\ UNCHANGED <<normVars, ganVars, g2pVars>>
  /\ ppc = "lines"
  /\ ppc' = "done"
  /\ UNCHANGED <<line, out, graphemes_, graphemes_bound, drop, linesRead,
                 manifestLines, perror>>

NextPrepare ==
  \/ ForLine
  \/ EndLine
  \/ FinishPrepare

(***************************************************************************)
(* FastPitchAdversarialModel: modules and parameters.                      *)
(***************************************************************************)
\* the modules given to FastPitchModule(...) at lines 123-133
FastPitchSubmodules(la) ==
  {"input_fft", "output_fft", "duration_predictor", "pitch_predictor"}
    \cup (IF la THEN {"aligner"} ELSE {})

\* module.parameters(): the parameters of a set of modules
Parameters(modules) == {<<m, "weight">> : m \in modules}

\* self.fastpitch.parameters()
FastPitchParameters(la) == Parameters(FastPitchSubmodules(la))

\* self.discriminator.parameters()
DiscriminatorParameters == Parameters({"discriminator"})

NoResult ==
  [hook |-> "none", optimizer_idx |-> -1, loss |-> "none", terms |-> {},
   no_grad |-> FALSE, detached |-> FALSE, grad |-> {}, frames |-> 0,
   frames_pred |-> 0, windows |-> {}, images |-> FALSE]

\* adversarial_loss(pred, labels): binary cross entropy of the scores of
\* the given splices against a tensor of ones (labels = 1) or zeros (0)
adversarial_loss(pred, labels) == [fn |-> "adversarial_loss", pred |-> pred, labels |-> labels]

\* np.random.randint(low=0, high=high): the values it can return; none
\* when high <= 0 (ValueError)
RandInt(high) == 0..(high - 1)

\* lines 356-357: the window [start, start + splice_length) of a spectrogram
\* of t frames
SpliceStarts(t, sl) == RandInt(t - sl)

InitGanConfig ==
  /\ learn_alignment \in BOOLEAN
  \* lines 68-88: ds_class_name is set only when learn_alignment holds, and
  \* __init__ returns for "TTSDataset" only: the deprecated class ends in
  \* NameError (TextTokenizerConfig, line 137, is not defined in the module)
  \* and any other class in ValueError (line 88)
  /\ ds_class_name = IF learn_alignment THEN "TTSDataset" ELSE None
  /\ logger \in {"TensorBoardLogger", "WandbLogger", "CSVLogger"}
  /\ splice_length \in 1..MaxSplice

InitGanState ==
  /\ gpc = "constructed"
  /\ optimizers = <<>>
  /\ schedulers = <<>>
  /\ log_train_images = FALSE
  /\ global_step = 0
  /\ val_outputs = 0
  /\ result = NoResult
  /\ gerror = None

\* after __init__ (lines 53-134)
InitGan == InitGanConfig /\ InitGanState

\* the model of the specifications that do not run it
InitGanIdle ==
  /\ learn_alignment = FALSE
  /\ ds_class_name = None
  /\ logger = "TensorBoardLogger"
  /\ splice_length = 1
  /\ InitGanState

configure_optimizers_Swapped ==
  /\ optimizers' = <<[params |-> FastPitchParameters(learn_alignment)],
                     [params |-> DiscriminatorParameters]>>
  /\ schedulers' = <<[scheduler |-> "NoamAnnealing", optimizer |-> 0, interval |-> "step"],
                     [scheduler |-> "NoamAnnealing", optimizer |-> 1, interval |-> "step"]>>

\* lines 238-260; the lists are indexed from 0 in the code, from 1 here
configure_optimizers_Body ==
  /\ optimizers' = <<[params |-> DiscriminatorParameters],
                     [params |-> FastPitchParameters(learn_alignment)]>>
  /\ schedulers' = <<[scheduler |-> "NoamAnnealing", optimizer |-> 0, interval |-> "step"],
                     [scheduler |-> "NoamAnnealing", optimizer |-> 1, interval |-> "step"]>>

\* configure_optimizers (lines 237-260)
configure_optimizers ==
  /\ gpc = "constructed"
  /\ configure_optimizers_Body
  /\ gpc' = "fit"
  /\ result' = [NoResult EXCEPT !.hook = "configure_optimizers"]
  /\ UNCHANGED <<learn_alignment, ds_class_name, logger, splice_length,
                 log_train_images, global_step, val_outputs, gerror>>
  /\ UNCHANGED <<normVars, prepVars, g2pVars>>

\* lines 326-335 and 486-495: the batch cannot be unpacked (ValueError); no
\* object that __init__ returned satisfies it
BatchError == learn_alignment /\ ds_class_name # "TTSDataset"

Raise(hook, idx, t, tp) ==
  /\ gpc' = "failed"
  /\ gerror' = "ValueError"
  /\ result' = [NoResult EXCEPT !.hook = hook, !.optimizer_idx = idx, !.frames = t,
                                !.frames_pred = tp]
  /\ UNCHANGED <<log_train_images, global_step, val_outputs>>

\* The parameters a loss over the discriminator's score of the generated
\* splices gives a gradient to: the discriminator's, and the generator's
\* unless the forward pass ran under torch.no_grad() or the splices were
\* detached from its graph
GradientTo(no_grad, detached, la) ==
  DiscriminatorParameters
    \cup (IF no_grad \/ detached THEN {} ELSE FastPitchParameters(la))

DiscriminatorTerms_SwappedLabels ==
  {adversarial_loss("real", 0), adversarial_loss("generated", 1)}

\* lines 340-379: the terms of the discriminator loss
DiscriminatorTerms ==
  {adversarial_loss("real", 1), adversarial_loss("generated", 0)}

\* lines 405-418: the terms of the generator loss
GeneratorTerms(la) ==
  {[fn |-> "mel_loss"], [fn |-> "duration_loss"], adversarial_loss("generated", 1),
   [fn |-> "pitch_loss"]}
    \cup (IF la THEN {[fn |-> "forward_sum_loss"], [fn |-> "bin_loss"]} ELSE {})

\* lines 429-480: images are logged by this step
LogsTrainImages ==
  \/ log_train_images /\ logger = "TensorBoardLogger"
  \/ ~(log_train_images /\ logger = "TensorBoardLogger") /\ logger = "WandbLogger"

\* training_step(batch, batch_idx, optimizer_idx) (lines 324-482) for a
\* batch whose spectrograms have t frames and whose predicted spectrograms
\* have tp frames
training_step ==
  /\ gpc = "fit"
  /\ global_step < MaxSteps
  /\ \E idx \in {0, 1}, t \in 1..MaxFrames, tp \in 1..MaxFrames :
       IF BatchError
       THEN Raise("training_step", idx, t, tp)
       ELSE IF idx = 0
       THEN \* train discriminator
            IF SpliceStarts(tp, splice_length) = {} \/ SpliceStarts(t, splice_length) = {}
            THEN Raise("training_step", idx, t, tp)
            ELSE \E sp \in SpliceStarts(tp, splice_length), sg \in SpliceStarts(t, splice_length) :
                   /\ result' = [hook |-> "training_step", optimizer_idx |-> idx,
                                 loss |-> "loss_disc", terms |-> DiscriminatorTerms,
                                 no_grad |-> TRUE, detached |-> TRUE,
                                 grad |-> GradientTo(TRUE, TRUE, learn_alignment),
                                 frames |-> t, frames_pred |-> tp,
                                 windows |-> {[of |-> "mels_pred", frames |-> tp, start |-> sp,
                                               stop |-> sp + splice_length],
                                              [of |-> "mels", frames |-> t, start |-> sg,
                                               stop |-> sg + splice_length]},
                                 images |-> FALSE]
                   /\ global_step' = global_step + 1
                   /\ UNCHANGED <<gpc, gerror, log_train_images, val_outputs>>
       ELSE \* train generator
            IF SpliceStarts(tp, splice_length) = {}
            THEN Raise("training_step", idx, t, tp)
            ELSE \E sp \in SpliceStarts(tp, splice_length) :
                   /\ result' = [hook |-> "training_step", optimizer_idx |-> idx,
                                 loss |-> "loss", terms |-> GeneratorTerms(learn_alignment),
                                 no_grad |-> FALSE, detached |-> FALSE,
                                 grad |-> GradientTo(FALSE, FALSE, learn_alignment),
                                 frames |-> t, frames_pred |-> tp,
                                 windows |-> {[of |-> "mels_pred", frames |-> tp, start |-> sp,
                                               stop |-> sp + splice_length]},
                                 images |-> LogsTrainImages]
                   /\ log_train_images' = IF LogsTrainImages THEN FALSE ELSE log_train_images
                   /\ global_step' = global_step + 1
                   /\ UNCHANGED <<gpc, gerror, val_outputs>>
  /\ UNCHANGED <<learn_alignment, ds_class_name, logger, splice_length, optimizers, schedulers>>
  /\ UNCHANGED <<normVars, prepVars, g2pVars>>

\* validation_step(batch, batch_idx) (lines 484-538)
validation_step ==
  /\ gpc = "fit"
  /\ val_outputs < MaxValBatches
  /\ \E t \in 1..MaxFrames, tp \in 1..MaxFrames :
       IF BatchError \/ SpliceStarts(tp, splice_length) = {}
       THEN Raise("validation_step", -1, t, tp)
       ELSE \E sp \in SpliceStarts(tp, splice_length) :
              /\ result' = [hook |-> "validation_step", optimizer_idx |-> -1,
                            loss |-> "val_loss",
                            terms |-> {[fn |-> "mel_loss"], [fn |-> "duration_loss"],
                                       [fn |-> "pitch_loss"], adversarial_loss("generated", 1)},
                            no_grad |-> FALSE, detached |-> FALSE,
                            grad |-> {},
                            frames |-> t, frames_pred |-> tp,
                            windows |-> {[of |-> "mels_pred", frames |-> tp, start |-> sp,
                                          stop |-> sp + splice_length]},
                            images |-> FALSE]
              /\ val_outputs' = val_outputs + 1
              /\ UNCHANGED <<gpc, gerror, log_train_images, global_step>>
  /\ UNCHANGED <<learn_alignment, ds_class_name, logger, splice_length, optimizers, schedulers>>
  /\ UNCHANGED <<normVars, prepVars, g2pVars>>

\* validation_epoch_end(outputs) (lines 540-569), outputs not empty
validation_epoch_end ==
  /\ gpc = "fit"
  /\ val_outputs > 0
  /\ val_outputs' = 0
  /\ log_train_images' = IF logger \in {"TensorBoardLogger", "WandbLogger"}
                         THEN TRUE ELSE log_train_images
  /\ result' = [NoResult EXCEPT !.hook = "validation_epoch_end",
                                !.images = logger \in {"TensorBoardLogger", "WandbLogger"}]
  /\ UNCHANGED <<gpc, gerror, global_step>>
  /\ UNCHANGED <<learn_alignment, ds_class_name, logger, splice_length, optimizers, schedulers>>
  /\ UNCHANGED <<normVars, prepVars, g2pVars>>

NextGan ==
  \/ configure_optimizers
  \/ training_step
  \/ validation_step
  \/ validation_epoch_end

(***************************************************************************)
(* g2p_ctc.py: CTCG2PModel._infer and convert_graphemes_to_phonemes.       *)
(***************************************************************************)
\* the lines a manifest can hold: with the graphemes only, or with a field
\* of target phonemes too
ManifestLineKinds == {[text |-> "ab"], [text |-> "ab", phonemes |-> "AH0 B"]}

Manifests == UNION {[1..n -> ManifestLineKinds] : n \in 0..MaxManifest}

\* values of the argument target_field (None: not given)
TargetFields == {None, "phonemes", "ipa"}

InitG2P ==
  /\ cpc = "idle"
  /\ training \in BOOLEAN
  /\ training_at_call = training
  /\ entry = None
  /\ manifest = <<>>
  /\ target_field = None
  /\ batch_size = 1
  /\ mode = FALSE
  /\ all_preds = <<>>
  /\ pending = None
  /\ f_out = <<>>
  /\ returned = <<>>
  /\ g2p_error = None
  /\ ncalls = 0

\* the model of the specifications that do not run it
InitG2PIdle == InitG2P /\ training = FALSE

\* lines 333-335: _infer is entered; all_preds = [] and mode = self.training
EnterInfer(method, m, tf, bs) ==
  /\ cpc = "idle"
  /\ ncalls < MaxCalls
  /\ ncalls' = ncalls + 1
  /\ entry' = method
  /\ manifest' = m
  /\ target_field' = tf
  /\ batch_size' = bs
  /\ training_at_call' = training
  /\ all_preds' = <<>>
  /\ mode' = training
  /\ pending' = None
  /\ f_out' = <<>>
  /\ returned' = <<>>
  /\ g2p_error' = None
  /\ cpc' = "try"
  /\ UNCHANGED training

\* _infer(manifest_filepath, batch_size) called by a user of the model
\* (lines 323-335)
_infer ==
  /\ \E m \in Manifests, bs \in 1..2 : EnterInfer("_infer", m, None, bs)
  /\ UNCHANGED <<normVars, prepVars, ganVars>>

\* convert_graphemes_to_phonemes(manifest_filepath, output_manifest_filepath,
\* batch_size, target_field=...) (lines 368-386): its first statement calls
\* _infer
convert_graphemes_to_phonemes ==
  /\ \E m \in Manifests, tf \in TargetFields, bs \in 1..2 :
       EnterInfer("convert_graphemes_to_phonemes", m, tf, bs)
  /\ UNCHANGED <<normVars, prepVars, ganVars>>

\* lines 336-340: inside try, self.eval() and self.to(device)
InferEval ==
  /\ cpc = "try"
  /\ training' = FALSE
  /\ cpc' = "setup"
  /\ UNCHANGED <<training_at_call, entry, manifest, target_field, batch_size, mode,
                 all_preds, pending, f_out, returned, g2p_error, ncalls>>
  /\ UNCHANGED <<normVars, prepVars, ganVars>>

\* hydra.utils.instantiate(config, *args, **kwargs) called with the given
\* positional arguments: the exception it raises at the call, or None
instantiate(n_positional) ==
  IF n_positional = 0 THEN "TypeError" ELSE None

\* _setup_infer_dataloader (lines 289-321): line 304 calls instantiate with
\* keyword arguments only, without the config to instantiate
_setup_infer_dataloader ==
  /\ cpc = "setup"
  /\ instantiate(0) # None
  /\ pending' = instantiate(0)
  /\ cpc' = "finally"
  /\ UNCHANGED <<training, training_at_call, entry, manifest, target_field, batch_size,
                 mode, all_preds, f_out, returned, g2p_error, ncalls>>
  /\ UNCHANGED <<normVars, prepVars, ganVars>>

RestoreMode_Skipped == training' = training

\* line 364: self.train(mode=mode)
RestoreMode == training' = mode

\* lines 362-365: the finally clause, then the exception in flight leaves
\* _infer (and convert_graphemes_to_phonemes, whose line 386 does not catch
\* it), or all_preds is returned
InferFinally ==
  /\ cpc = "finally"
  /\ RestoreMode
  /\ g2p_error' = pending
  /\ returned' = IF pending = None THEN all_preds ELSE <<>>
  /\ pending' = None
  /\ cpc' = "idle"
  /\ UNCHANGED <<training_at_call, entry, manifest, target_field, batch_size, mode,
                 all_preds, f_out, ncalls>>
  /\ UNCHANGED <<normVars, prepVars, ganVars>>

NextG2P ==
  \/ _infer
  \/ convert_graphemes_to_phonemes
  \/ InferEval
  \/ _setup_infer_dataloader
  \/ InferFinally

(***************************************************************************)
(* Specifications.                                                         *)
(***************************************************************************)
vars == <<normVars, prepVars, ganVars, g2pVars>>

\* a run of normalize_wikihomograph_data
Init == InitNormalize /\ InitPrepare /\ InitGanIdle /\ InitG2PIdle

Next == NextNormalize

Spec == Init /\ [][Next]_vars

\* a run of _prepare_wikihomograph_data over normalized files
InitPrepareRun ==
  InitNormalize /\ preexisting = {} /\ InitPrepare /\ InitGanIdle /\ InitG2PIdle

SpecPrepare == InitPrepareRun /\ [][NextPrepare]_vars

\* a FastPitchAdversarialModel driven by a trainer
InitGanRun == InitNormalize /\ preexisting = {} /\ InitPrepare /\ InitGan /\ InitG2PIdle

SpecGan == InitGanRun /\ [][NextGan]_vars

\* a CTCG2PModel whose inference methods are called
InitG2PRun == InitNormalize /\ preexisting = {} /\ InitPrepare /\ InitGanIdle /\ InitG2P

SpecG2P == InitG2PRun /\ [][NextG2P]_vars

(***************************************************************************)
(* Properties of normalize_wikihomograph_data.                             *)
(***************************************************************************)

\* C1: every line written by normalize_wikihomograph_data has a
\* homograph_span whose lower-cased form is the target homograph (the file
\* name without ".tsv").
C1_SpanIsHomograph ==
  \A e \in Range(written) : Lower(e.homograph_span) = file

\* C1 witness: a written line whose span has the source's upper case
C1_Witness ==
  \E e \in Range(written) :
    /\ e.homograph_span # file
    /\ Lower(e.homograph_span) = file

\* C2: when normalizer.normalize raises for a sentence, the failure is
\* logged, no entry is written for the sentence and num_removed is
\* incremented exactly once.
C2_FailureIsDropped ==
  [][(pc = "normalize" /\ raised')
       => /\ printed' = "TN ERROR"
          /\ written' = <<>>
          /\ num_removed' = num_removed + 1]_vars

\* C3: when the run finishes, num_removed is the number of sentences read
\* from the processed files minus the number of lines written.
C3_RemovedIsDifference ==
  pc = "done" => num_removed = numRead - numWritten

\* the row's given span does not match and the homograph does not occur
\* exactly once in the lower-cased sentence
Ambiguous ==
  /\ sent # NoText
  /\ Lower(Slice(sent, given[1], given[2])) # file
  /\ Count(Lower(sent), file) # 1

\* C4: a sentence with a mismatching span and zero or several occurrences
\* of the homograph is logged and dropped: when its iteration is over, a
\* message was printed, no entry was written and the run goes on.
C4_AmbiguousLoggedAndDropped ==
  (Ambiguous /\ pc = "iter_end")
    => /\ printed # None
       /\ written = <<>>

\* C5: failures are non-fatal and not retried: the run never stops to wait
\* for input, is never ended by an exception, and normalizer.normalize is
\* called at most once for a sentence.
C5_NonFatalNoRetry ==
  /\ pc # "pdb"
  /\ pc # "crashed"
  /\ calls <= 1

\* C6: for every entry written, replacing the placeholder "[]" in
\* text_graphemes by homograph_span yields norm_text_graphemes.
C6_RoundTrip ==
  \A e \in Range(written) :
    Replace(e.text_graphemes, replace_token, e.homograph_span) = e.norm_text_graphemes

\* C6 witness: an entry with an upper-case span whose text_graphemes holds
\* the placeholder, written with a text changed by post-processing
C6_Witness ==
  \E e \in Range(written) :
    /\ e.homograph_span = <<"B">>
    /\ e.text_graphemes = <<"[", "]", "-">>
    /\ e.norm_text_graphemes = <<"B", "-">>

\* C8 as stated: every run reads and normalizes every input file.
C8_NoCaching ==
  pc = "done" => processed = Homographs

\* C8 amended: a run reads, normalizes and writes exactly the files whose
\* output did not exist when the run started; the others are skipped, and
\* nothing is read, written or counted for them.
C8_SkipsExisting ==
  pc = "done"
    => /\ processed = Homographs \ preexisting
       /\ (processed = {} => numRead = 0 /\ numWritten = 0 /\ num_removed = 0)
       /\ reported = <<num_removed>>

\* C8 witness: a finished run that skipped a file and processed another
C8_Witness ==
  /\ pc = "done"
  /\ preexisting # {}
  /\ processed # {}
  /\ numRead > 0

\* every entry a run writes is one of the lines _prepare_wikihomograph_data
\* is given to read
WrittenIsNormalizedLine == \A e \in Range(written) : e \in NormalizedLines

(***************************************************************************)
(* Properties of _prepare_wikihomograph_data.                              *)
(***************************************************************************)

\* C7 as stated: for every line written to the final manifest, replacing
\* the placeholder "[]" in its text_graphemes by its homograph_span
\* reproduces its norm_text_graphemes.
C7_ManifestRoundTrip ==
  \A o \in Range(out) :
    Replace(o["text_graphemes"], replace_token, o["homograph_span"])
      = o["norm_text_graphemes"]

\* C7 amended: for every line written to the final manifest, its
\* norm_text_graphemes is the text_graphemes of the normalized line it was
\* made from with the placeholder "[]" replaced by its homograph_span.
C7_InputRoundTrip ==
  \A o \in Range(out) : \A l \in Range(line) :
    Replace(l["text_graphemes"], replace_token, o["homograph_span"])
      = o["norm_text_graphemes"]

\* C7 witness: a manifest line made from a text with a CJK ideograph, whose
\* own text_graphemes no longer gives norm_text_graphemes
C7_Witness ==
  \E o \in Range(out) : \E l \in Range(line) :
    /\ l["text_graphemes"] = <<"[", "]", "U+4E2D">>
    /\ o["homograph_span"] = <<"B">>
    /\ o["text_graphemes"] = <<"B">>
    /\ o["norm_text_graphemes"] = <<"B", "U+4E2D">>

\* C9: every line written to the final manifest carries text_graphemes,
\* text, duration = 0.001 and audio_filepath = "n/a", and keeps the input
\* line's norm_text_graphemes, start_end, homograph_span and word_id.
C9_ManifestFields ==
  \A o \in Range(out) : \A l \in Range(line) :
    /\ DOMAIN o = {"text_graphemes", "norm_text_graphemes", "start_end",
                   "homograph_span", "word_id", "text", "duration", "audio_filepath"}
    /\ o["duration"] = "0.001"
    /\ o["audio_filepath"] = "n/a"
    /\ \A k \in {"norm_text_graphemes", "start_end", "homograph_span", "word_id"} :
         o[k] = l[k]

\* C9 witness: a manifest line whose text_graphemes was overwritten
C9_Witness ==
  \E o \in Range(out) : \E l \in Range(line) :
    /\ o["text_graphemes"] # l["text_graphemes"]
    /\ o["word_id"] = "w_2"
    /\ o["text"] = <<"/", "w_2", "/", "-">>

(***************************************************************************)
(* Properties of FastPitchAdversarialModel.                                *)
(***************************************************************************)

\* C10: the optimizer roles agree between configure_optimizers and
\* training_step: optimizer and scheduler 0 are over the discriminator's
\* parameters only and training_step(optimizer_idx = 0) returns the
\* discriminator loss; optimizer and scheduler 1 are over the fastpitch
\* generator's parameters only and training_step(optimizer_idx = 1) returns
\* the generator loss; the two parameter sets are disjoint, and the loss
\* returned for an index has a gradient for the parameters of its optimizer.
C10_OptimizerRoles ==
  gpc # "constructed"
    => /\ Len(optimizers) = 2 /\ Len(schedulers) = 2
       /\ optimizers[0 + 1].params = DiscriminatorParameters
       /\ optimizers[1 + 1].params = FastPitchParameters(learn_alignment)
       /\ optimizers[0 + 1].params \cap optimizers[1 + 1].params = {}
       /\ schedulers[0 + 1].optimizer = 0 /\ schedulers[1 + 1].optimizer = 1
       /\ (result.hook = "training_step" /\ gerror = None)
            => /\ result.optimizer_idx = 0 =>
                    /\ result.loss = "loss_disc"
                    /\ result.terms = DiscriminatorTerms
               /\ result.optimizer_idx = 1 =>
                    /\ result.loss = "loss"
                    /\ adversarial_loss("generated", 1) \in result.terms
               /\ optimizers[result.optimizer_idx + 1].params \subseteq result.grad

\* C10 witness: a discriminator step that follows another training step under
\* the configured optimizers, with an aligner among the generator modules
C10_Witness ==
  /\ gpc = "fit"
  /\ learn_alignment
  /\ result.hook = "training_step"
  /\ result.optimizer_idx = 0
  /\ result.loss = "loss_disc"
  /\ global_step = 2

\* C11: a discriminator step (optimizer_idx 0) returns
\* adversarial_loss(real score, 1) + adversarial_loss(generated score, 0),
\* runs the generator's forward pass with gradients disabled and detaches
\* the generated splices, so that its loss has no gradient for a parameter
\* of the generator; a generator step (optimizer_idx 1) scores the generated
\* splices against label 1.
C11_DiscriminatorStepFrame ==
  (result.hook = "training_step" /\ gerror = None)
    => /\ result.optimizer_idx = 0 =>
            /\ result.terms = {adversarial_loss("real", 1), adversarial_loss("generated", 0)}
            /\ result.no_grad
            /\ result.detached
            /\ result.grad \cap FastPitchParameters(learn_alignment) = {}
       /\ result.optimizer_idx = 1 =>
            /\ adversarial_loss("generated", 1) \in result.terms
            /\ adversarial_loss("generated", 0) \notin result.terms

\* C11 witness: a discriminator step that returned its loss, for a generator
\* that has an aligner, after a generator step or another step
C11_Witness ==
  /\ result.hook = "training_step"
  /\ result.optimizer_idx = 0
  /\ gerror = None
  /\ learn_alignment
  /\ result.grad = DiscriminatorParameters
  /\ global_step > 1

\* C12: a generator training step logs training images only when
\* log_train_images is set, and logging clears the flag; the flag is set only
\* by validation_epoch_end (with either logger).
C12_TrainImagesWhenFlagged ==
  [][/\ (result'.hook = "training_step" /\ result'.images)
          => (log_train_images /\ ~log_train_images')
     /\ (~log_train_images /\ log_train_images')
          => result'.hook = "validation_epoch_end"]_vars

\* C13: when every spectrogram a step splices has at least splice_length
\* frames, the step's splices succeed and every window lies within its
\* spectrogram and has exactly splice_length frames.
C13_SpliceSucceeds ==
  (/\ result.hook \in {"training_step", "validation_step"}
   /\ ~BatchError
   /\ result.frames_pred >= splice_length
   /\ (result.optimizer_idx = 0 => result.frames >= splice_length))
    => /\ gerror = None
       /\ \A w \in result.windows :
            /\ 0 <= w.start
            /\ w.stop <= w.frames
            /\ w.stop - w.start = splice_length

(***************************************************************************)
(* More properties of the WikiHomograph data preparation.                  *)
(***************************************************************************)

\* the given span of the row does not match the homograph and the
\* lower-cased sentence holds the homograph exactly once
Relocatable ==
  /\ sent # NoText
  /\ Lower(Slice(sent, given[1], given[2])) # file
  /\ Count(Lower(sent), file) = 1

\* C17: a row whose given span does not match while the lower-cased
\* sentence holds the homograph exactly once is kept: the run is not ended
\* by the assertion of the relocation, the row is not dropped by the span
\* check, start is the index of that occurrence, end is start +
\* len(homograph), the entry written for the row has this pair as start_end,
\* and an entry is written when the row's normalization returns.
C17_RelocatedKept ==
  /\ error # "AssertionError"
  /\ Relocatable
       => /\ pc # "pdb"
          /\ start = Find(Lower(sent), file, 0)
          /\ end = start + Len(file)
          /\ \A e \in Range(written) : e.start_end = <<start, end>>
          /\ (pc = "iter_end" /\ ~raised) => written # <<>>

\* C18: the homograph_span of every entry written is sent[start:end] of the
\* pre-processed sentence for the written start_end, in its original case.
C18_SpanIsSlice ==
  \A e \in Range(written) :
    e.homograph_span = Slice(sent, e.start_end[1], e.start_end[2])

\* C19: a line whose graphemes fail is_valid is not written and is recorded
\* once in drop, and the run goes on: the function is never ended by an
\* exception, and between two lines and at its end the lines of the manifest
\* and the entries of drop add up to the lines read.
C19_InvalidDroppedAndCounted ==
  /\ ppc # "crashed"
  /\ ppc \in {"lines", "done"} => manifestLines + Len(drop) = linesRead
  /\ \A l \in Range(line) : ~is_valid(GraphemesOf(l)) => out = <<>>

(***************************************************************************)
(* Properties of CTCG2PModel inference.                                    *)
(***************************************************************************)

\* a call of convert_graphemes_to_phonemes is over
ConvertOver == cpc = "idle" /\ entry = "convert_graphemes_to_phonemes"

\* C14: convert_graphemes_to_phonemes writes one output line per input
\* line, in the input order, the i-th with the i-th prediction of _infer as
\* pred_text, and returns the list of predictions.
C14_OneLinePerInput ==
  ConvertOver
    => /\ g2p_error = None
       /\ Len(f_out) = Len(manifest)
       /\ Len(returned) = Len(manifest)
       /\ \A k \in 1..Len(f_out) : f_out[k].pred_text = returned[k]

\* C15: when target_field is given and no manifest line has it, the call
\* ends without an error and every line is written.
C15_MissingTargetSkipsPER ==
  (/\ ConvertOver
   /\ target_field # None
   /\ \A k \in 1..Len(manifest) : target_field \notin DOMAIN manifest[k])
    => /\ g2p_error = None
       /\ Len(f_out) = Len(manifest)

\* C16: the model is in evaluation mode while _infer runs its inference,
\* and when _infer is left, by its return or by an exception, self.training
\* is what it was when _infer was called.
C16_ModeRestored ==
  /\ cpc \in {"setup", "finally"} => ~training
  /\ cpc = "idle" => training = training_at_call

\* C16 witness: _infer was called on a model in training mode and left by
\* an exception, and the model is in training mode
C16_Witness ==
  /\ cpc = "idle"
  /\ entry = "_infer"
  /\ g2p_error # None
  /\ training_at_call
  /\ training

====
